---- MODULE Spec2Model ----
(***************************************************************************)
(* Model of project.py: a backtracking parser of propositional formulas    *)
(* (get_z3_expr / X and its rules), the global registry VARS, the truth    *)
(* table printer test, and the script entry point main.                    *)
(*                                                                         *)
(* A statement is a sequence of one-character strings.  Python indices are *)
(* 0-based, so stmt[i] of the source is stmt[i + 1] here.                  *)
(***************************************************************************)
EXTENDS Integers, Sequences, FiniteSets, TLC

\* Longest statement drawn exhaustively from Alphabet.
MaxLen == 3

\* Characters the exhaustive inputs are built from ("1" is an unknown one).
Alphabet == {"a", "b", "T", "F", "~", "&", "|", "-", ">", "<", "(", ")", " ", "1"}

\* char.islower() over the characters used here.
LowerOrder == <<"a", "b", "c">>
islower(ch) == \E k \in 1..Len(LowerOrder) : LowerOrder[k] = ch

\* Operator tokens handed to joint.
TokOr == <<"|">>
TokAnd == <<"&">>
TokImplies == <<"-", ">">>
TokIff == <<"<", "-", ">">>
Joiners == {TokIff, TokImplies, TokOr, TokAnd}

-----------------------------------------------------------------------------
(* z3 expression constructors: the tree is kept exactly as it is built.     *)

NoTree == [op |-> "none"]
Bool(ch) == [op |-> "var", name |-> ch]
BoolVal(b) == [op |-> "const", val |-> b]
Not(x) == [op |-> "not", arg |-> x]
And(x, y) == [op |-> "and", left |-> x, right |-> y]
Or(x, y) == [op |-> "or", left |-> x, right |-> y]
Implies(x, y) == [op |-> "implies", left |-> x, right |-> y]

\* Outcomes of a call: "ok" returns a BoolRef, "fail" returns False,
\* "hang" never returns (a loop that repeats its own state), "overflow" is
\* unbounded recursion, which Python ends with an uncaught RecursionError.
Diverged == {"hang", "overflow"}
Ret(st, tree, reg) == [st |-> st, tree |-> tree, reg |-> reg]
is_z3(what) == what.st = "ok"

-----------------------------------------------------------------------------
(* str.rfind(sub, start, end) with Python's slice normalisation: a negative *)
(* bound counts from the end of the string.                                *)

SliceIndex(k, n) == IF k < 0 THEN (IF k + n < 0 THEN 0 ELSE k + n)
                    ELSE IF k > n THEN n ELSE k

MatchAt(stmt, sub, i) == \A k \in 1..Len(sub) : stmt[i + k] = sub[k]

SetMax(S) == CHOOSE m \in S : \A k \in S : k <= m

rfind(stmt, sub, start, end) ==
    LET n == Len(stmt)
        s == SliceIndex(start, n)
        e == SliceIndex(end, n)
        C == {i \in s..(e - Len(sub)) : MatchAt(stmt, sub, i)}
    IN IF C = {} THEN -1 ELSE SetMax(C)

-----------------------------------------------------------------------------
(* The parser.  reg is the registry VARS threaded through the calls;       *)
(* active is the set of spans whose X call is on the Python stack.         *)

\* var with the registration of a new variable left out.
var_unregistered(stmt, l, r, reg) ==
    IF r # l THEN Ret("fail", NoTree, reg)
    ELSE LET char == stmt[r + 1] IN
         IF islower(char) THEN Ret("ok", Bool(char), reg)
         ELSE IF char = "T" THEN Ret("ok", BoolVal(TRUE), reg)
         ELSE IF char = "F" THEN Ret("ok", BoolVal(FALSE), reg)
         ELSE Ret("fail", NoTree, reg)

\* X = v and X = T and X = F
var(stmt, l, r, reg) ==
    IF r # l THEN Ret("fail", NoTree, reg)
    ELSE LET char == stmt[r + 1] IN
         IF islower(char)
         THEN IF char \in DOMAIN reg
              THEN Ret("ok", reg[char], reg)
              ELSE Ret("ok", Bool(char), reg @@ (char :> Bool(char)))
         ELSE IF char = "T" THEN Ret("ok", BoolVal(TRUE), reg)
         ELSE IF char = "F" THEN Ret("ok", BoolVal(FALSE), reg)
         ELSE Ret("fail", NoTree, reg)

RECURSIVE X(_, _, _, _, _)
RECURSIVE XRules(_, _, _, _, _, _)
RECURSIVE jointFrom(_, _, _, _, _, _, _, _)

\* paren recursing on a span that keeps the closing bracket.
paren_keeps_bracket(stmt, l, r, reg, active) ==
    IF stmt[l + 1] = "(" /\ stmt[r + 1] = ")"
    THEN X(stmt, l + 1, r, reg, active)
    ELSE Ret("fail", NoTree, reg)

\* X = (X)
paren(stmt, l, r, reg, active) ==
    IF stmt[l + 1] = "(" /\ stmt[r + 1] = ")"
    THEN X(stmt, l + 1, r - 1, reg, active)
    ELSE Ret("fail", NoTree, reg)

\* X = ~X
negate(stmt, l, r, reg, active) ==
    IF stmt[l + 1] = "~"
    THEN LET x == X(stmt, l + 1, r, reg, active) IN
         IF is_z3(x) THEN Ret("ok", Not(x.tree), x.reg) ELSE x
    ELSE Ret("fail", NoTree, reg)

\* The position joint retries at after the occurrence at i failed.
NextOccurrence(stmt, joiner, l, i) == rfind(stmt, joiner, l, i - 1)

\* The while loop of joint from candidate i; seen holds the candidates the
\* loop already tried, so meeting one again is a loop that never ends.
jointFrom(stmt, joiner, l, r, i, seen, reg, active) ==
    IF i = -1 THEN [st |-> "fail", x |-> NoTree, y |-> NoTree, reg |-> reg]
    ELSE IF i \in seen
    THEN [st |-> "hang", x |-> NoTree, y |-> NoTree, reg |-> reg]
    ELSE LET x == X(stmt, l, i - 1, reg, active) IN
         IF x.st \in Diverged
         THEN [st |-> x.st, x |-> NoTree, y |-> NoTree, reg |-> x.reg]
         ELSE LET y == X(stmt, i + Len(joiner), r, x.reg, active) IN
              IF y.st \in Diverged
              THEN [st |-> y.st, x |-> NoTree, y |-> NoTree, reg |-> y.reg]
              ELSE IF is_z3(x) /\ is_z3(y)
              THEN [st |-> "ok", x |-> x.tree, y |-> y.tree, reg |-> y.reg]
              ELSE jointFrom(stmt, joiner, l, r,
                             NextOccurrence(stmt, joiner, l, i),
                             seen \cup {i}, y.reg, active)

\* joint starting from the leftmost occurrence (find in place of rfind).
joint_leftmost(stmt, joiner, l, r, reg, active) ==
    LET C == {i \in l..(r + 1 - Len(joiner)) : MatchAt(stmt, joiner, i)}
        first == IF C = {} THEN -1 ELSE CHOOSE m \in C : \A k \in C : m <= k
    IN jointFrom(stmt, joiner, l, r, first, {}, reg, active)

\* Used for the rules that join two X's
joint(stmt, joiner, l, r, reg, active) ==
    jointFrom(stmt, joiner, l, r, rfind(stmt, joiner, l, r + 1), {}, reg, active)

\* X = X|X
disj(stmt, l, r, reg, active) ==
    LET j == joint(stmt, TokOr, l, r, reg, active) IN
    IF j.st = "ok" THEN Ret("ok", Or(j.x, j.y), j.reg)
    ELSE Ret(j.st, NoTree, j.reg)

\* X = X&X
conj(stmt, l, r, reg, active) ==
    LET j == joint(stmt, TokAnd, l, r, reg, active) IN
    IF j.st = "ok" THEN Ret("ok", And(j.x, j.y), j.reg)
    ELSE Ret(j.st, NoTree, j.reg)

\* X = X->X
implies(stmt, l, r, reg, active) ==
    LET j == joint(stmt, TokImplies, l, r, reg, active) IN
    IF j.st = "ok" THEN Ret("ok", Implies(j.x, j.y), j.reg)
    ELSE Ret(j.st, NoTree, j.reg)

\* iff building the same implication twice.
iff_one_direction(stmt, l, r, reg, active) ==
    LET j == joint(stmt, TokIff, l, r, reg, active) IN
    IF j.st = "ok"
    THEN Ret("ok", And(Implies(j.x, j.y), Implies(j.x, j.y)), j.reg)
    ELSE Ret(j.st, NoTree, j.reg)

\* X = X<->X
iff(stmt, l, r, reg, active) ==
    LET j == joint(stmt, TokIff, l, r, reg, active) IN
    IF j.st = "ok"
    THEN Ret("ok", And(Implies(j.x, j.y), Implies(j.y, j.x)), j.reg)
    ELSE Ret(j.st, NoTree, j.reg)

\* The k-th rule X tries, in the order of the source.
Rule(k, stmt, l, r, reg, active) ==
    CASE k = 1 -> paren(stmt, l, r, reg, active)
      [] k = 2 -> var(stmt, l, r, reg)
      [] k = 3 -> iff(stmt, l, r, reg, active)
      [] k = 4 -> implies(stmt, l, r, reg, active)
      [] k = 5 -> disj(stmt, l, r, reg, active)
      [] k = 6 -> conj(stmt, l, r, reg, active)
      [] k = 7 -> negate(stmt, l, r, reg, active)

\* The chain of X with the result of paren returned as it is whenever the
\* span is bracketed.
XRules_paren_final(k, stmt, l, r, reg, active) ==
    LET x == Rule(k, stmt, l, r, reg, active) IN
    IF x.st # "fail" THEN x
    ELSE IF k = 1 /\ stmt[l + 1] = "(" /\ stmt[r + 1] = ")" THEN x
    ELSE IF k = 7 THEN Ret("fail", NoTree, x.reg)
    ELSE XRules(k + 1, stmt, l, r, x.reg, active)

\* The chain "x = rule(...); if is_z3(x): return x" of X from rule k on.
XRules(k, stmt, l, r, reg, active) ==
    LET x == Rule(k, stmt, l, r, reg, active) IN
    IF x.st # "fail" THEN x
    ELSE IF k = 7 THEN Ret("fail", NoTree, x.reg)
    ELSE XRules(k + 1, stmt, l, r, x.reg, active)

X(stmt, l, r, reg, active) ==
    IF l > r THEN Ret("fail", NoTree, reg)
    ELSE IF <<l, r>> \in active THEN Ret("overflow", NoTree, reg)
    ELSE XRules(1, stmt, l, r, reg, active \cup {<<l, r>>})

\* text.replace(" ", "")
RECURSIVE RemoveSpaces(_)
RemoveSpaces(text) ==
    IF text = <<>> THEN <<>>
    ELSE IF Head(text) = " " THEN RemoveSpaces(Tail(text))
    ELSE <<Head(text)>> \o RemoveSpaces(Tail(text))

get_z3_expr(text, reg) ==
    LET statement == RemoveSpaces(text) IN
    X(statement, 0, Len(statement) - 1, reg, {})

-----------------------------------------------------------------------------
(* z3: the value of a tree under an interpretation of the Bool constants,  *)
(* and Solver.check, which answers sat iff some interpretation satisfies   *)
(* the added expression together with the assumptions.                     *)

RECURSIVE Eval(_, _)
Eval(e, m) ==
    CASE e.op = "var" -> m[e.name]
      [] e.op = "const" -> e.val
      [] e.op = "not" -> ~Eval(e.arg, m)
      [] e.op = "and" -> Eval(e.left, m) /\ Eval(e.right, m)
      [] e.op = "or" -> Eval(e.left, m) \/ Eval(e.right, m)
      [] e.op = "implies" -> Eval(e.left, m) => Eval(e.right, m)

RECURSIVE Consts(_)
Consts(e) ==
    CASE e.op = "var" -> {e.name}
      [] e.op = "const" -> {}
      [] e.op = "not" -> Consts(e.arg)
      [] OTHER -> Consts(e.left) \cup Consts(e.right)

\* s.add(expr); s.check(*ands) == sat, where ands[k] is the assumption
\* "handle == value" as the pair <<handle, value>>.
SolverCheck(expr, ands) ==
    LET names == Consts(expr) \cup UNION {Consts(ands[k][1]) : k \in 1..Len(ands)}
    IN \E m \in [names -> BOOLEAN] :
          /\ Eval(expr, m)
          /\ \A k \in 1..Len(ands) : Eval(ands[k][1], m) = ands[k][2]

-----------------------------------------------------------------------------
(* test: the truth table printer.                                          *)

\* sorted(VARS.items()): the <<key, handle>> pairs in alphabetical order.
SortedItems(reg) ==
    LET InVars(ch) == ch \in DOMAIN reg
        keys == SelectSeq(LowerOrder, InVars)
    IN [k \in 1..Len(keys) |-> <<keys[k], reg[keys[k]]>>]

\* IsTrue with the first variable on the least significant bit.
IsTrue_lsb_first(i, vi, var_cnt) ==
    LET bit == 2 ^ vi IN (i \div bit) % 2 = 1

\* bit = 2**(var_cnt - vi - 1); istrue = i & bit == bit
IsTrue(i, vi, var_cnt) ==
    LET bit == 2 ^ (var_cnt - vi - 1) IN (i \div bit) % 2 = 1

\* The line printed for i: the values of the variables and the result.
TableRow(expr, var_list, i) ==
    LET var_cnt == Len(var_list)
        boolval == [k \in 1..var_cnt |-> IsTrue(i, k - 1, var_cnt)]
        ands == [k \in 1..var_cnt |-> <<var_list[k][2], boolval[k]>>]
    IN [vals |-> boolval, final |-> SolverCheck(expr, ands)]

NoOut == [cols |-> <<>>, label |-> <<>>, rows |-> <<>>, err |-> "none"]

\* What test(expr, exprstr) prints: the header and one line per i.
test(expr, exprstr, reg) ==
    LET var_list == SortedItems(reg)
        var_cnt == Len(var_list)
        n == 2 ^ var_cnt
    IN [cols |-> [k \in 1..var_cnt |-> var_list[k][1]],
        label |-> exprstr,
        rows |-> [k \in 1..n |-> TableRow(expr, var_list, k - 1)],
        err |-> "none"]

\* main from the test of is_z3(expr) on, expr being what get_z3_expr
\* returned for the argument exprstr (or how it diverged).
main_parsed(expr, exprstr) ==
    IF expr.st \in Diverged
    THEN [st |-> expr.st, ret |-> -1, out |-> NoOut,
          reg |-> expr.reg, expr |-> expr]
    ELSE IF is_z3(expr)
    THEN [st |-> "ok", ret |-> 0, out |-> test(expr.tree, exprstr, expr.reg),
          reg |-> expr.reg, expr |-> expr]
    ELSE [st |-> "ok", ret |-> 1, out |-> [NoOut EXCEPT !.err = "parsing"],
          reg |-> expr.reg, expr |-> expr]

\* main with sys.argv[1:] = argv: the value it returns, what it prints and
\* the registry it leaves; st is "ok" when main returns.
main(argv, reg) ==
    IF Len(argv) + 1 < 2
    THEN [st |-> "ok", ret |-> 1, out |-> [NoOut EXCEPT !.err = "no argument"],
          reg |-> reg, expr |-> Ret("fail", NoTree, reg)]
    ELSE IF Len(argv) + 1 > 2
    THEN [st |-> "ok", ret |-> 1, out |-> [NoOut EXCEPT !.err = "one argument"],
          reg |-> reg, expr |-> Ret("fail", NoTree, reg)]
    ELSE main_parsed(get_z3_expr(argv[1], reg), argv[1])

-----------------------------------------------------------------------------
(* Inputs.                                                                 *)

\* Formulas of the documentation and the longer shapes the rules meet.
Examples == {
    <<>>,                                         \* (empty)
    <<"a">>,                                      \* a
    <<"T">>,                                      \* T
    <<"~", "a">>,                                 \* ~a
    <<"(", "a", ")">>,                            \* (a)
    <<"a", "&", "b">>,                            \* a&b
    <<"a", "|", "b">>,                            \* a|b
    <<"a", "-", ">", "b">>,                       \* a->b
    <<"a", "<", "-", ">", "b">>,                  \* a<->b
    <<"a", "&">>,                                 \* a&
    <<"(", "a">>,                                 \* (a
    <<"a", "~", "b">>,                            \* a~b
    <<"&", "a">>,                                 \* &a
    <<"|", "a">>,                                 \* |a
    <<"-", ">", "a">>,                            \* ->a
    <<"<", "-", ">", "a">>,                       \* <->a
    <<"T", "&", "F">>,                            \* T&F
    <<"T", "|", "F">>,                            \* T|F
    <<"a", "-", ">", "b", "-", ">", "c">>,        \* a->b->c
    <<"(", "a", ")", "&", "(", "b", ")">>,        \* (a)&(b)
    <<"(", "a", ")", "|", "(", "b", ")">>,        \* (a)|(b)
    <<"a", " ", "&", " ", "b">>,                  \* a & b
    <<"a", "&", "b", "|", "c">>,                  \* a&b|c
    <<"~", "(", "a", "&", "b", ")">>,             \* ~(a&b)
    <<"(", "(", "a", ")", ")">>,                  \* ((a))
    <<"a", "1">>,                                 \* a1
    <<"b", "&", "a">>,                            \* b&a
    <<"c", "-", ">", "a">>,                       \* c->a
    <<"~", "~", "b">>,                            \* ~~b
    <<"a", "-", ">", "(", "b", "-", ">", "c", ")">>   \* a->(b->c)
}

Strings(n) == UNION {[1..k -> Alphabet] : k \in 0..n}

\* Every statement of at most MaxLen characters, and the examples.
Inputs == Strings(MaxLen) \cup Examples

\* sys.argv[1:] of a script run: no, one or two arguments.
ArgvSet == {<<>>} \cup {<<s>> : s \in Examples}
              \cup {<<s, t>> : s \in {<<"a">>, <<"a", "&">>}, t \in Examples}

-----------------------------------------------------------------------------
(* The process.  VARS is the module-level registry; text and res are the   *)
(* argument and the result of the last get_z3_expr call; out is what the   *)
(* last operation printed; pc is where the process stands; args, ret and   *)
(* exit are the arguments, main's return value and the exit status of a    *)
(* script run (-1: none yet).                                              *)

VARIABLES VARS, text, res, out, pc, args, ret, exit

vars == <<VARS, text, res, out, pc, args, ret, exit>>

NoRes == [st |-> "none", tree |-> NoTree]

\* A freshly started interpreter that imported the module.
Init ==
    /\ VARS = <<>>
    /\ text = <<>>
    /\ res = NoRes
    /\ out = NoOut
    /\ pc = "idle"
    /\ args = <<>>
    /\ ret = -1
    /\ exit = -1

\* The end of a get_z3_expr call with outcome x: it returns, or the
\* process hangs, or it dies of the uncaught RecursionError.
CallEnds(x) ==
    /\ VARS' = x.reg
    /\ res' = [st |-> x.st, tree |-> x.tree]
    /\ pc' = IF x.st = "hang" THEN "hung"
             ELSE IF x.st = "overflow" THEN "crashed" ELSE "parsed"

\* A call get_z3_expr(t) by the importing program.
GetZ3Expr(t) ==
    /\ pc \in {"idle", "ready", "parsed", "printed"}
    /\ CallEnds(get_z3_expr(t, VARS))
    /\ text' = t
    /\ out' = NoOut
    /\ UNCHANGED <<args, ret, exit>>

\* A call test(expr, text) on the expression the last call returned.
Test ==
    /\ pc = "parsed"
    /\ res.st = "ok"
    /\ out' = test(res.tree, text, VARS)
    /\ pc' = "printed"
    /\ UNCHANGED <<VARS, text, res, args, ret, exit>>

\* The end of a script run whose main had outcome m.  The value main
\* returns is dropped, so a run that returns exits with status 0; an
\* uncaught RecursionError exits with status 1; a hang never exits.
ScriptEnds(m) ==
    /\ VARS' = m.reg
    /\ res' = [st |-> m.expr.st, tree |-> m.expr.tree]
    /\ out' = m.out
    /\ ret' = m.ret
    /\ pc' = IF m.st = "hang" THEN "hung" ELSE "exited"
    /\ exit' = IF m.st = "hang" THEN -1 ELSE IF m.st = "overflow" THEN 1 ELSE 0

\* The module run as a script: "if __name__ == '__main__': main()".
Script(av) ==
    /\ pc = "idle"
    /\ ScriptEnds(main(av, VARS))
    /\ args' = av
    /\ text' = IF Len(av) = 1 THEN av[1] ELSE <<>>

Next ==
    \/ \E t \in Examples : GetZ3Expr(t)
    \/ Test
    \/ \E av \in ArgvSet : Script(av)

\* An importing program making any sequence of calls, or a script run.
Spec == Init /\ [][Next]_vars

\* One call on each statement of Inputs in a fresh process.
InitParse ==
    /\ VARS = <<>>
    /\ text \in Inputs
    /\ res = NoRes
    /\ out = NoOut
    /\ pc = "ready"
    /\ args = <<>>
    /\ ret = -1
    /\ exit = -1

Parse == pc = "ready" /\ GetZ3Expr(text)

NextParse == Parse \/ Test

SpecParse == InitParse /\ [][NextParse]_vars

-----------------------------------------------------------------------------
(* Vocabulary of the properties.                                           *)

\* The grammar of the header comment: X = X&X | X|X | X->X | X<->X | (X)
\* | ~X | v | T | F, as membership of the span [l, r] of stmt.
RECURSIVE Derives(_, _, _)
Derives(stmt, l, r) ==
    /\ l <= r
    /\ \/ l = r /\ (islower(stmt[l + 1]) \/ stmt[l + 1] \in {"T", "F"})
       \/ stmt[l + 1] = "(" /\ stmt[r + 1] = ")" /\ Derives(stmt, l + 1, r - 1)
       \/ stmt[l + 1] = "~" /\ Derives(stmt, l + 1, r)
       \/ \E j \in Joiners : \E p \in (l + 1)..(r - Len(j)) :
             /\ MatchAt(stmt, j, p)
             /\ Derives(stmt, l, p - 1)
             /\ Derives(stmt, p + Len(j), r)

WellFormed(t) ==
    LET stmt == RemoveSpaces(t) IN Derives(stmt, 0, Len(stmt) - 1)

\* The last get_z3_expr call has come to its end (returned or diverged).
Called == res.st # "none"

\* The last get_z3_expr call returned a tree.
Parsed == res.st = "ok"

\* A table has been printed, by a call of test or by main.
TablePrinted == pc = "printed" \/ (pc = "exited" /\ ret = 0)

\* The lowercase letters of a text, and their alphabetical listing.
LettersOf(t) == {t[k] : k \in {n \in 1..Len(t) : islower(t[n])}}
Listing(S) == LET InS(ch) == ch \in S IN SelectSeq(LowerOrder, InS)

\* Bit k (0 = least significant) of the natural number i.
BitOf(i, k) == (i \div (2 ^ k)) % 2

\* s < t in the order of the rows: position by position, F before T.
LexLess(s, t) ==
    \E k \in 1..Len(s) : /\ \A m \in 1..(k - 1) : s[m] = t[m]
                         /\ ~s[k] /\ t[k]

\* The truth-functional value of a tree under the assignment of a row.
RECURSIVE TruthValue(_, _)
TruthValue(e, a) ==
    CASE e.op = "var" -> a[e.name]
      [] e.op = "const" -> e.val
      [] e.op = "not" -> ~TruthValue(e.arg, a)
      [] e.op = "or" -> TruthValue(e.left, a) \/ TruthValue(e.right, a)
      [] e.op = "implies" -> ~TruthValue(e.left, a) \/ TruthValue(e.right, a)
      [] e.op = "and" ->
           IF /\ e.left.op = "implies" /\ e.right.op = "implies"
              /\ e.left.left = e.right.right /\ e.left.right = e.right.left
           THEN TruthValue(e.left.left, a) = TruthValue(e.left.right, a)
           ELSE TruthValue(e.left, a) /\ TruthValue(e.right, a)

\* The assignment a printed row stands for.
RowAssignment(cols, vals) ==
    [ch \in {cols[k] : k \in 1..Len(cols)} |->
        vals[CHOOSE k \in 1..Len(cols) : cols[k] = ch]]

Finals(rows) == [k \in 1..Len(rows) |-> rows[k].final]
Vals(rows) == [k \in 1..Len(rows) |-> rows[k].vals]

\* The reference search of joint: the operands of the rightmost occurrence
\* of the token inside [l, r] whose two sides both parse.
RefJoint(stmt, joiner, l, r) ==
    LET P == {p \in l..(r + 1 - Len(joiner)) :
                /\ MatchAt(stmt, joiner, p)
                /\ X(stmt, l, p - 1, <<>>, {}).st = "ok"
                /\ X(stmt, p + Len(joiner), r, <<>>, {}).st = "ok"}
    IN IF P = {} THEN [st |-> "fail", x |-> NoTree, y |-> NoTree]
       ELSE LET p == SetMax(P) IN
            [st |-> "ok", x |-> X(stmt, l, p - 1, <<>>, {}).tree,
             y |-> X(stmt, p + Len(joiner), r, <<>>, {}).tree]

Spans(stmt) == {s \in (0..(Len(stmt) - 1)) \X (0..(Len(stmt) - 1)) : s[1] <= s[2]}

\* The statement is bracketed and what is between the brackets does not parse.
BracketedFailure(stmt) ==
    /\ Len(stmt) >= 2
    /\ stmt[1] = "(" /\ stmt[Len(stmt)] = ")"
    /\ X(stmt, 1, Len(stmt) - 2, <<>>, {}).st = "fail"

-----------------------------------------------------------------------------
(* Properties.                                                             *)

\* C1: every ill-formed input (one the grammar does not derive once its
\* spaces are removed) makes get_z3_expr return the failure value False.
C1_IllFormedReturnsFalse ==
    (Called /\ ~WellFormed(text)) => res.st = "fail"

\* C2: test prints exactly 2^n rows for the n registered variables, listed
\* alphabetically; in row i (from 0) the variable at sorted index v is true
\* iff bit n-1-v of i is 1; so the rows are pairwise different, strictly
\* increasing in lexicographic order with F before T, cover every total
\* assignment, and a table without variables has exactly one row.
C2_RowsEnumerateAssignments ==
    TablePrinted =>
        LET n == Cardinality(DOMAIN VARS)
            rows == out.rows
        IN /\ out.cols = Listing(DOMAIN VARS)
           /\ Len(rows) = 2 ^ n
           /\ \A i \in 1..Len(rows) :
                 /\ Len(rows[i].vals) = n
                 /\ \A v \in 1..n : rows[i].vals[v] = (BitOf(i - 1, n - v) = 1)
           /\ \A i, j \in 1..Len(rows) : i < j => LexLess(rows[i].vals, rows[j].vals)
           /\ \A a \in [1..n -> BOOLEAN] : \E i \in 1..Len(rows) : rows[i].vals = a
           /\ (n = 0 => Len(rows) = 1)

W_C2_TwoVariables ==
    /\ pc = "printed"
    /\ out.cols = <<"a", "b">>
    /\ Vals(out.rows) = << <<FALSE, FALSE>>, <<FALSE, TRUE>>,
                           <<TRUE, FALSE>>, <<TRUE, TRUE>> >>

\* C3: in every printed row the result equals the truth-functional value
\* of the tree under the row's assignment (~ is NOT, & is AND, | is OR,
\* x->y is (NOT x) OR y, the tree of x<->y is equality of the two values);
\* over the rows FF, FT, TF, TT: a&b gives F,F,F,T; a|b gives F,T,T,T;
\* a->b gives T,T,F,T; a<->b gives T,F,F,T.
C3_ResultIsTruthValue ==
    TablePrinted =>
        /\ \A i \in 1..Len(out.rows) :
              out.rows[i].final =
                  TruthValue(res.tree, RowAssignment(out.cols, out.rows[i].vals))
        /\ out.cols = <<"a", "b">> =>
              /\ text = <<"a", "&", "b">> =>
                    Finals(out.rows) = <<FALSE, FALSE, FALSE, TRUE>>
              /\ text = <<"a", "|", "b">> =>
                    Finals(out.rows) = <<FALSE, TRUE, TRUE, TRUE>>
              /\ text = <<"a", "-", ">", "b">> =>
                    Finals(out.rows) = <<TRUE, TRUE, FALSE, TRUE>>
              /\ text = <<"a", "<", "-", ">", "b">> =>
                    Finals(out.rows) = <<TRUE, FALSE, FALSE, TRUE>>

W_C3_IffTable ==
    /\ pc = "printed"
    /\ text = <<"a", "<", "-", ">", "b">>
    /\ out.cols = <<"a", "b">>
    /\ Finals(out.rows) = <<TRUE, FALSE, FALSE, TRUE>>

\* C4: when get_z3_expr parses a text s, it also parses "(" s ")" and
\* returns a tree structurally identical to the tree of s.
C4_ParenthesizedSameTree ==
    (Called /\ Parsed) =>
        LET p == get_z3_expr(<<"(">> \o text \o <<")">>, <<>>) IN
        p.st = "ok" /\ p.tree = res.tree

W_C4_ParsedBinary ==
    /\ text = <<"(", "a", ")", "&", "(", "b", ")">>
    /\ Parsed
    /\ res.tree = And(Bool("a"), Bool("b"))

\* C5: on every span of the statement and for every operator token, when
\* joint returns, its result is that of the rightmost-first search over all
\* occurrences of the token in the span: the operands of the rightmost
\* occurrence whose two sides parse, and failure only if there is none; so
\* a->b->c parses as Implies(Implies(a, b), c).
C5_JointIsRightmostSearch ==
    Called =>
        LET stmt == RemoveSpaces(text) IN
        /\ \A j \in Joiners : \A s \in Spans(stmt) :
              LET got == joint(stmt, j, s[1], s[2], <<>>, {})
                  ref == RefJoint(stmt, j, s[1], s[2])
              IN got.st \in {"ok", "fail"} =>
                    got.st = ref.st /\ got.x = ref.x /\ got.y = ref.y
        /\ text = <<"a", "-", ">", "b", "-", ">", "c">> =>
              Parsed /\ res.tree = Implies(Implies(Bool("a"), Bool("b")), Bool("c"))

W_C5_RetryToTheLeft ==
    /\ text = <<"a", "-", ">", "(", "b", "-", ">", "c", ")">>
    /\ Parsed
    /\ res.tree = Implies(Bool("a"), Implies(Bool("b"), Bool("c")))

\* C6: a script run exits with status 0 when exactly one argument is given
\* and it parses, and with status 1 when no argument, more than one
\* argument, or an argument that does not parse is given.
C6_ExitCodes ==
    pc = "exited" =>
        exit = IF Len(args) = 1 /\ Parsed THEN 0 ELSE 1

\* C7: after any earlier get_z3_expr calls in the process, a successful
\* get_z3_expr(f) followed by test prints columns for exactly the distinct
\* variables of f and exactly 2^n rows for those n variables.
C7_RegistryScopedToOneParse ==
    pc = "printed" =>
        /\ out.cols = Listing(LettersOf(text))
        /\ Len(out.rows) = 2 ^ Cardinality(LettersOf(text))

\* C8: get_z3_expr terminates on every input: it returns a tree or the
\* failure value.
C8_Terminates ==
    /\ pc \notin {"hung", "crashed"}
    /\ Called => res.st \in {"ok", "fail"}

\* C9 as stated: when the statement starts with "(" and ends with ")" and
\* what is between them fails to parse, no other rule is applied and X
\* returns failure.
C9_NoOtherRuleApplied ==
    (Called /\ BracketedFailure(RemoveSpaces(text))) => res.st = "fail"

\* C9 amended: in that case the Parenthesized rule fails and X goes on to
\* the remaining rules on the same span: X returns, and it returns a tree
\* exactly when some operator token in the span has two sides that parse
\* (the whole of (a)&(b) parses as And(a, b)).
C9_RemainingRulesApplied ==
    (Called /\ BracketedFailure(RemoveSpaces(text))) =>
        LET stmt == RemoveSpaces(text) IN
        /\ res.st \in {"ok", "fail"}
        /\ Parsed <=> \E j \in Joiners : RefJoint(stmt, j, 0, Len(stmt) - 1).st = "ok"
        /\ Parsed => res.tree.op \in {"and", "or", "implies"}

W_C9_SplitAfterBrackets ==
    /\ text = <<"(", "a", ")", "|", "(", "b", ")">>
    /\ BracketedFailure(text)
    /\ Parsed
    /\ res.tree = Or(Bool("a"), Bool("b"))

\* C10: starting from an empty registry, when get_z3_expr returns a tree
\* the keys of VARS are exactly the variables that occur in the tree, and
\* the table printed for it has 2^n rows for its n distinct variables.
C10_RegistryIsTreeVariables ==
    (Called /\ Parsed) =>
        /\ DOMAIN VARS = Consts(res.tree)
        /\ \A ch \in DOMAIN VARS : VARS[ch] = Bool(ch)
        /\ pc = "printed" => Len(out.rows) = 2 ^ Cardinality(Consts(res.tree))

W_C10_InternedWhileBacktracking ==
    /\ pc = "printed"
    /\ text = <<"a", "-", ">", "(", "b", "-", ">", "c", ")">>
    /\ DOMAIN VARS = {"a", "b", "c"}
    /\ Len(out.rows) = 8

====
